---- MODULE Spec2Model ----
(***************************************************************************)
(* The task-ingestion pipeline: the HTTP endpoint (HttpTrigger main) that  *)
(* validates a request, reads the connection string and inserts one row    *)
(* with a bounded retry loop.  Each call is a process whose position is    *)
(* pc[c]; the store is the set of committed rows plus the uncommitted      *)
(* inserts held by each connection.                                        *)
(***************************************************************************)
EXTENDS Integers, Sequences, FiniteSets, TLC

\* ------------------------------------------------------------- bounds
NCalls == 2
MaxFaults == 1
MaxBatches == 2
MaxItems == 2
MaxClientRetries == 3

\* ------------------------------------------------- program constants
max_retries == 3
\* retry_delay is 0.5 time units; durations are counted in tenths of a unit
retry_delay == 5

Calls == 1..NCalls

\* ------------------------------------------------------------ requests
\* A JSON value that can stand for "task": a string, a number or null.
Str(s) == [ty |-> "str", v |-> s]
Num(s) == [ty |-> "num", v |-> s]
Null == [ty |-> "null", v |-> "null"]
Bool(s) == [ty |-> "bool", v |-> s]

TaskValues ==
    {Str(""), Str("a"), Str("7"), Num("0"), Num("7"), Null, Bool("true"), Bool("false")}

\* Python truthiness of a task value (the test "not task_text")
Truthy(t) ==
    CASE t.ty = "str" -> t.v # ""
      [] t.ty = "num" -> t.v # "0"
      [] t.ty = "bool" -> t.v = "true"
      [] OTHER -> FALSE

\* a rendering that passes the JSON text through
Format_Raw(t) == t.v

\* str() of a task value, as the f-string of line 60 renders it
Format(t) ==
    CASE t.ty = "bool" -> (IF t.v = "true" THEN "True" ELSE "False")
      [] t.ty = "null" -> "None"
      [] OTHER -> t.v

\* a parameter formatted into the statement with its quotes
SqlParam_Repr(t) ==
    CASE t.ty = "str" -> "repr"
      [] OTHER -> t.v

\* the value the query parameter of line 55 stores in the text column
SqlParam(t) ==
    CASE t.ty = "bool" -> (IF t.v = "true" THEN "1" ELSE "0")
      [] t.ty = "null" -> "NULL"
      [] OTHER -> t.v

\* A request body: bytes that are no JSON, a JSON value that is no object,
\* an object without "task", or an object with "task".
Body(kind, has, task) == [kind |-> kind, has |-> has, task |-> task]

NonObjectKinds == {"null", "number", "array", "string"}

Bodies ==
    {Body("garbage", FALSE, Null)}
    \cup {Body(k, FALSE, Null) : k \in NonObjectKinds}
    \cup {Body("object", FALSE, Null)}
    \cup {Body("object", TRUE, t) : t \in TaskValues}

ValidBodies == {b \in Bodies : b.kind = "object" /\ b.has /\ Truthy(b.task)}

\* a get_json that never raises
ParsesAsJson_Silent(b) == TRUE

\* req.get_json(): raises on bytes that are no JSON
ParsesAsJson(b) == b.kind # "garbage"

\* req_body.get: only an object (dict) has the method
HasGet(b) == b.kind = "object"

\* req_body.get("task"): the value, or None when the key is absent
GetTask(b) == IF b.has THEN b.task ELSE Null

\* ------------------------------------------------------- configuration
\* A connection string is a sequence of tokens: the four keys, the
\* separators "," and ";", letters and digits.
KServer == "Server=tcp:"
KDb == "Initial Catalog="
KUser == "User ID="
KPwd == "Password="
Digits == {"1", "4", "3"}

ServerSegs ==
    { <<KServer, "h", ",", "1", "4", "3", "3", ";">>,
      <<>>,
      <<KServer, "h", ";">>,
      <<KServer, ",", "1", ";">>,
      <<KServer, "h", ",", ";">> }
DbSegs == { <<KDb, "d", ";">>, <<>>, <<KDb, ";">> }
UserSegs == { <<KUser, "u", ";">>, <<>>, <<KUser, ";">> }
PwdSegs == { <<KPwd, "p", ";">>, <<>>, <<KPwd>>, <<KPwd, "p">> }

ConnStrs ==
    {s1 \o s2 \o s3 \o s4 :
        s1 \in ServerSegs, s2 \in DbSegs, s3 \in UserSegs, s4 \in PwdSegs}
    \cup {s3 \o s4 \o s2 \o s1 :
        s1 \in ServerSegs, s2 \in DbSegs, s3 \in UserSegs, s4 \in {<<KPwd, "p", ";">>}}

\* the form the configuration documents
ValidConnStr ==
    <<KServer, "h", ",", "1", "4", "3", "3", ";", KDb, "d", ";",
      KUser, "u", ";", KPwd, "p", ";">>

\* os.environ: the entry is set to a connection string, or is absent
EnvSet(s) == [set |-> TRUE, value |-> s]
EnvAbsent == [set |-> FALSE, value |-> <<>>]
Envs == {EnvSet(s) : s \in ConnStrs} \cup {EnvAbsent}

Min(S) == CHOOSE x \in S : \A y \in S : x <= y

\* the last index of the run that starts at i and stops before a token of Stop
RunEnd(s, i, Stop) ==
    LET ends == {j \in i..Len(s) : s[j] \in Stop}
    IN IF ends = {} THEN Len(s) ELSE Min(ends) - 1

\* the last index of the run of digits that starts at i
DigitRunEnd(s, i) ==
    LET ends == {j \in i..Len(s) : s[j] \notin Digits}
    IN IF ends = {} THEN Len(s) ELSE Min(ends) - 1

NoMatch == [matched |-> FALSE, g1 |-> <<>>, g2 |-> <<>>]

\* re.search(r'<key>([^;]+)', s): leftmost key followed by one token or more
\* other than ";"; the group is the longest such run
SearchKey(s, key) ==
    LET at == {i \in 1..(Len(s) - 1) : s[i] = key /\ s[i + 1] # ";"}
    IN IF at = {} THEN NoMatch
       ELSE LET i == Min(at)
            IN [matched |-> TRUE,
                g1 |-> SubSeq(s, i + 1, RunEnd(s, i + 1, {";"})),
                g2 |-> <<>>]

\* re.search(r'Server=tcp:([^,]+),(\d+)', s)
SearchServer(s) ==
    LET at == {i \in 1..Len(s) :
                 /\ s[i] = KServer
                 /\ LET j == RunEnd(s, i + 1, {","}) + 1
                    IN /\ j > i + 1
                       /\ j + 1 <= Len(s)
                       /\ s[j] = ","
                       /\ s[j + 1] \in Digits}
    IN IF at = {} THEN NoMatch
       ELSE LET i == Min(at)
                j == RunEnd(s, i + 1, {","}) + 1
            IN [matched |-> TRUE,
                g1 |-> SubSeq(s, i + 1, j - 1),
                g2 |-> SubSeq(s, j + 1, DigitRunEnd(s, j + 1))]

DigitVal(d) == CASE d = "1" -> 1 [] d = "3" -> 3 [] d = "4" -> 4 [] OTHER -> 0

\* int(<digits>)
RECURSIVE ToInt(_)
ToInt(ds) ==
    IF ds = <<>> THEN 0
    ELSE 10 * ToInt(SubSeq(ds, 1, Len(ds) - 1)) + DigitVal(ds[Len(ds)])

server_match(s) == SearchServer(s)
db_match(s) == SearchKey(s, KDb)
user_match(s) == SearchKey(s, KUser)
pwd_match(s) == SearchKey(s, KPwd)

\* the test of line 30 without the password search
ConfigOK_NoPwd(s) ==
    /\ server_match(s).matched
    /\ db_match(s).matched
    /\ user_match(s).matched

\* the test of line 30, negated: all four searches matched
ConfigOK(s) ==
    /\ server_match(s).matched
    /\ db_match(s).matched
    /\ user_match(s).matched
    /\ pwd_match(s).matched

NoDescriptor == [server |-> <<>>, port |-> 0, database |-> <<>>,
                 user |-> <<>>, password |-> <<>>]

Descriptor(s) ==
    [server |-> server_match(s).g1,
     port |-> ToInt(server_match(s).g2),
     database |-> db_match(s).g1,
     user |-> user_match(s).g1,
     password |-> pwd_match(s).g1]

\* --------------------------------------------------------------- state
VARIABLES
    body,        \* body[c]: the request body of call c
    env,         \* the process environment entry SqlConnectionString
    pc,          \* pc[c]: the position of call c in main
    task_text,   \* local of call c
    descriptor,  \* locals server, port, database, user, password of call c
    attempt,     \* the loop variable of call c (0-based)
    exc,         \* the exception call c has caught or raised
    opened,      \* opened[c]: attempts (1-based) whose connect returned a connection
    closed,      \* closed[c]: attempts whose connection was closed by conn.close()
    pendingTx,   \* pendingTx[c]: rows inserted on a connection of c and not committed
    rows,        \* dbo.Tasks: the committed rows
    nextId,      \* the identity counter of dbo.Tasks
    outcome,     \* outcome[c]: one record per finished pass of the try block
    sleeps,      \* sleeps[c]: the durations of the time.sleep calls, in order
    resp,        \* resp[c]: the HttpResponse returned
    log,         \* log[c]: the logging calls made, in order
    faults,      \* store faults the environment may still inject
    feed,        \* the change batches still to be delivered to the consumer
    seen,        \* the batches the consumer has handled, in order
    tlog,        \* tlog[k]: the logging calls the consumer made for batch k
    cl_max_retries, \* the argument max_retries of send_request
    cl_pc,       \* the position of send_request
    cl_attempt,  \* the loop variable of send_request (0-based)
    posts,       \* the POSTs send_request issued, in order, each with its outcome
    cl_sleeps,   \* the durations of the time.sleep calls of send_request
    result,      \* the value send_request returned
    abandonedAt  \* abandonedAt[c]: where call c was when its caller stopped waiting

vars == <<body, env, pc, task_text, descriptor, attempt, exc, opened, closed,
          pendingTx, rows, nextId, outcome, sleeps, resp, log, faults,
          feed, seen, tlog,
          cl_max_retries, cl_pc, cl_attempt, posts, cl_sleeps, result, abandonedAt>>

inputs == <<body, env>>
consumer == <<feed, seen, tlog>>
client == <<cl_max_retries, cl_pc, cl_attempt, posts, cl_sleeps, result>>
caller == <<client, abandonedAt>>
endpoint == <<body, env, pc, task_text, descriptor, attempt, exc, opened, closed,
              pendingTx, rows, nextId, outcome, sleeps, resp, log, faults>>
locals == <<task_text, descriptor, attempt>>
store == <<pendingTx, rows, nextId>>
conns == <<opened, closed>>

\* func.HttpResponse(body, status_code): the body is a message, with the
\* attempt count and the text formatted into it where the message has them
Resp(status, msg, n, detail) ==
    [status |-> status, msg |-> msg, n |-> n, detail |-> detail]
NoResp == Resp(0, "", 0, "")

LogEntry(level, msg, n, err) == [level |-> level, msg |-> msg, n |-> n, err |-> err]

Row(id, payload, c, a) ==
    [Id |-> id, Payload |-> payload, Processed |-> FALSE, call |-> c, attempt |-> a]

\* str(e) of the exception a failing store operation raises
ErrorOf(step) ==
    CASE step = "connect" -> "connect failed"
      [] step = "execute" -> "execute failed"
      [] step = "commit" -> "commit failed"
      [] step = "log" -> "logging failed"
      [] OTHER -> "close failed"

\* no change batch is delivered
ConsumerIdle ==
    /\ feed = <<>>
    /\ seen = <<>>
    /\ tlog = <<>>

\* the results send_request returns: the dictionaries of lines 51-59, 78-86
\* and 93-100 (status_code 0 stands for None), or None
Result(kind, code, n) ==
    [kind |-> kind, status_code |-> code, success |-> code = 200, attempt |-> n]
NoResult == [kind |-> "", status_code |-> 0, success |-> FALSE, attempt |-> 0]

\* send_request is not running
ClientIdle ==
    /\ cl_max_retries = 0
    /\ cl_pc = "idle"
    /\ cl_attempt = 0
    /\ posts = <<>>
    /\ cl_sleeps = <<>>
    /\ result = NoResult
    /\ abandonedAt = [c \in Calls |-> ""]

InitCall(active) ==
    /\ pc = [c \in Calls |-> IF c \in active THEN "start" ELSE "idle"]
    /\ task_text = [c \in Calls |-> Null]
    /\ descriptor = [c \in Calls |-> NoDescriptor]
    /\ attempt = [c \in Calls |-> 0]
    /\ exc = [c \in Calls |-> ""]
    /\ opened = [c \in Calls |-> {}]
    /\ closed = [c \in Calls |-> {}]
    /\ pendingTx = [c \in Calls |-> {}]
    /\ rows = {}
    /\ nextId = 1
    /\ outcome = [c \in Calls |-> <<>>]
    /\ sleeps = [c \in Calls |-> <<>>]
    /\ resp = [c \in Calls |-> NoResp]
    /\ log = [c \in Calls |-> <<>>]

\* one call in flight, any request, any configuration, any pattern of faults
Init ==
    /\ \E b \in Bodies : body = [c \in Calls |-> b]
    /\ env \in Envs
    /\ InitCall({1})
    /\ faults = max_retries
    /\ ConsumerIdle
    /\ ClientIdle

\* lines 10-15: the first log line, then req.get_json()
Receive(c) ==
    /\ pc[c] = "start"
    /\ log' = [log EXCEPT ![c] =
                 Append(@, LogEntry("info", "HTTP trigger received a request.", 0, ""))]
    /\ IF ParsesAsJson(body[c])
       THEN /\ pc' = [pc EXCEPT ![c] = "validate"]
            /\ resp' = resp
       ELSE /\ pc' = [pc EXCEPT ![c] = "done"]
            /\ resp' = [resp EXCEPT ![c] = Resp(400, "Invalid JSON", 0, "")]
    /\ UNCHANGED <<inputs, consumer, caller, locals, exc, conns, store, outcome, sleeps, faults>>

\* lines 17-20: req_body.get("task") and the test "not task_text"
Validate(c) ==
    /\ pc[c] = "validate"
    /\ IF ~HasGet(body[c])
       THEN /\ pc' = [pc EXCEPT ![c] = "raised"]
            /\ exc' = [exc EXCEPT ![c] = "AttributeError"]
            /\ UNCHANGED <<task_text, resp>>
       ELSE /\ task_text' = [task_text EXCEPT ![c] = GetTask(body[c])]
            /\ exc' = exc
            /\ IF ~Truthy(GetTask(body[c]))
               THEN /\ pc' = [pc EXCEPT ![c] = "done"]
                    /\ resp' = [resp EXCEPT ![c] = Resp(400, "Missing 'task'", 0, "")]
               ELSE /\ pc' = [pc EXCEPT ![c] = "configure"]
                    /\ resp' = resp
    /\ UNCHANGED <<inputs, consumer, caller, descriptor, attempt, conns, store, outcome, sleeps, log, faults>>

\* lines 22-43: os.environ[...], the four searches, the locals, the loop entry
Configure(c) ==
    /\ pc[c] = "configure"
    /\ IF ~env.set
       THEN /\ pc' = [pc EXCEPT ![c] = "raised"]
            /\ exc' = [exc EXCEPT ![c] = "KeyError"]
            /\ UNCHANGED <<descriptor, attempt, resp>>
       ELSE /\ exc' = exc
            /\ IF ~ConfigOK(env.value)
               THEN /\ pc' = [pc EXCEPT ![c] = "done"]
                    /\ resp' = [resp EXCEPT ![c] =
                                  Resp(500, "Invalid connection string format", 0, "")]
                    /\ UNCHANGED <<descriptor, attempt>>
               ELSE /\ descriptor' = [descriptor EXCEPT ![c] = Descriptor(env.value)]
                    /\ attempt' = [attempt EXCEPT ![c] = 0]
                    /\ pc' = [pc EXCEPT ![c] = "connect"]
                    /\ resp' = resp
    /\ UNCHANGED <<inputs, consumer, caller, task_text, conns, store, outcome, sleeps, log, faults>>

\* a store operation of the try block raises: control goes to line 62
Fail(c, step) ==
    /\ faults > 0
    /\ faults' = faults - 1
    /\ exc' = [exc EXCEPT ![c] = ErrorOf(step)]
    /\ outcome' = [outcome EXCEPT ![c] =
                     Append(@, [n |-> attempt[c] + 1, ok |-> FALSE, step |-> step,
                                err |-> ErrorOf(step)])]
    /\ pc' = [pc EXCEPT ![c] = "except"]

\* a connect that is made only while the caller still waits
Connect_WhileCallerWaits(c) ==
    /\ pc[c] = "connect"
    /\ abandonedAt[c] = ""
    /\ opened' = [opened EXCEPT ![c] = @ \cup {attempt[c] + 1}]
    /\ pc' = [pc EXCEPT ![c] = "execute"]
    /\ UNCHANGED <<inputs, consumer, caller, locals, exc, closed, store, outcome, sleeps, resp, log, faults>>

\* lines 45-53: pymssql.connect returns a connection
Connect(c) ==
    /\ pc[c] = "connect"
    /\ opened' = [opened EXCEPT ![c] = @ \cup {attempt[c] + 1}]
    /\ pc' = [pc EXCEPT ![c] = "execute"]
    /\ UNCHANGED <<inputs, consumer, caller, locals, exc, closed, store, outcome, sleeps, resp, log, faults>>

\* lines 45-53: pymssql.connect raises
ConnectFail(c) ==
    /\ pc[c] = "connect"
    /\ Fail(c, "connect")
    /\ UNCHANGED <<inputs, consumer, caller, locals, conns, store, sleeps, resp, log>>

\* an insert on an autocommit connection: visible at once
Execute_Autocommit(c) ==
    /\ pc[c] = "execute"
    /\ rows' = rows \cup {Row(nextId, SqlParam(task_text[c]), c, attempt[c] + 1)}
    /\ nextId' = nextId + 1
    /\ pc' = [pc EXCEPT ![c] = "commit"]
    /\ UNCHANGED <<inputs, consumer, caller, locals, exc, conns, pendingTx, outcome, sleeps, resp, log, faults>>

\* lines 54-55: the insert runs in the connection's open transaction
Execute(c) ==
    /\ pc[c] = "execute"
    /\ pendingTx' = [pendingTx EXCEPT ![c] =
                       @ \cup {Row(nextId, SqlParam(task_text[c]), c, attempt[c] + 1)}]
    /\ nextId' = nextId + 1
    /\ pc' = [pc EXCEPT ![c] = "commit"]
    /\ UNCHANGED <<inputs, consumer, caller, locals, exc, conns, rows, outcome, sleeps, resp, log, faults>>

\* lines 54-55: conn.cursor() or cursor.execute raises
ExecuteFail(c) ==
    /\ pc[c] = "execute"
    /\ Fail(c, "execute")
    /\ UNCHANGED <<inputs, consumer, caller, locals, conns, store, sleeps, resp, log>>

\* a commit that drops an insert whose payload the table already holds
Commit_Dedup(c) ==
    /\ pc[c] = "commit"
    /\ rows' = rows \cup {r \in pendingTx[c] :
                            /\ r.attempt = attempt[c] + 1
                            /\ \A q \in rows : q.Payload # r.Payload}
    /\ pendingTx' = [pendingTx EXCEPT ![c] = {r \in @ : r.attempt # attempt[c] + 1}]
    /\ pc' = [pc EXCEPT ![c] = "close"]
    /\ UNCHANGED <<inputs, consumer, caller, locals, exc, conns, nextId, outcome, sleeps, resp, log, faults>>

\* a commit that replaces the committed rows of the same payload
Commit_Upsert(c) ==
    /\ pc[c] = "commit"
    /\ rows' = {q \in rows : \A r \in pendingTx[c] :
                                r.attempt = attempt[c] + 1 => q.Payload # r.Payload}
               \cup {r \in pendingTx[c] : r.attempt = attempt[c] + 1}
    /\ pendingTx' = [pendingTx EXCEPT ![c] = {r \in @ : r.attempt # attempt[c] + 1}]
    /\ pc' = [pc EXCEPT ![c] = "close"]
    /\ UNCHANGED <<inputs, consumer, caller, locals, exc, conns, nextId, outcome, sleeps, resp, log, faults>>

\* line 56: conn.commit() makes the attempt's insert visible
Commit(c) ==
    /\ pc[c] = "commit"
    /\ rows' = rows \cup {r \in pendingTx[c] : r.attempt = attempt[c] + 1}
    /\ pendingTx' = [pendingTx EXCEPT ![c] = {r \in @ : r.attempt # attempt[c] + 1}]
    /\ pc' = [pc EXCEPT ![c] = "close"]
    /\ UNCHANGED <<inputs, consumer, caller, locals, exc, conns, nextId, outcome, sleeps, resp, log, faults>>

\* line 56: conn.commit() raises; the insert stays uncommitted
CommitFail(c) ==
    /\ pc[c] = "commit"
    /\ Fail(c, "commit")
    /\ UNCHANGED <<inputs, consumer, caller, locals, conns, store, sleeps, resp, log>>

\* line 57: conn.close()
Close(c) ==
    /\ pc[c] = "close"
    /\ closed' = [closed EXCEPT ![c] = @ \cup {attempt[c] + 1}]
    /\ pc' = [pc EXCEPT ![c] = "succeed"]
    /\ UNCHANGED <<inputs, consumer, caller, locals, exc, opened, store, outcome, sleeps, resp, log, faults>>

\* line 57: conn.close() raises
CloseFail(c) ==
    /\ pc[c] = "close"
    /\ Fail(c, "close")
    /\ UNCHANGED <<inputs, consumer, caller, locals, conns, store, sleeps, resp, log>>

\* a success line that carries the 0-based loop variable
Succeed_ZeroBased(c) ==
    /\ pc[c] = "succeed"
    /\ log' = [log EXCEPT ![c] =
                 Append(@, LogEntry("info", "Task inserted successfully", attempt[c], ""))]
    /\ outcome' = [outcome EXCEPT ![c] =
                     Append(@, [n |-> attempt[c] + 1, ok |-> TRUE, step |-> "return", err |-> ""])]
    /\ resp' = [resp EXCEPT ![c] = Resp(200, "Task added: ", 0, Format(task_text[c]))]
    /\ pc' = [pc EXCEPT ![c] = "done"]
    /\ UNCHANGED <<inputs, consumer, caller, locals, exc, conns, store, sleeps, faults>>

\* lines 59-60: the success log line and the 200 response
Succeed(c) ==
    /\ pc[c] = "succeed"
    /\ log' = [log EXCEPT ![c] =
                 Append(@, LogEntry("info", "Task inserted successfully", attempt[c] + 1, ""))]
    /\ outcome' = [outcome EXCEPT ![c] =
                     Append(@, [n |-> attempt[c] + 1, ok |-> TRUE, step |-> "return", err |-> ""])]
    /\ resp' = [resp EXCEPT ![c] = Resp(200, "Task added: ", 0, Format(task_text[c]))]
    /\ pc' = [pc EXCEPT ![c] = "done"]
    /\ UNCHANGED <<inputs, consumer, caller, locals, exc, conns, store, sleeps, faults>>

\* the exception of the first failed pass instead of the current one
E_First(c) == outcome[c][1].err

\* line 62: the exception bound to e
E(c) == exc[c]

\* a test that lets the last pass sleep too
ShouldSleep_Always(a) == a < max_retries

\* line 64: attempts remain
ShouldSleep(a) == a < max_retries - 1

\* a delay scaled by the 0-based loop variable
BackoffDelay_ZeroBased(a) == retry_delay * a

\* line 65: the argument of time.sleep
BackoffDelay(a) == retry_delay * (a + 1)

\* lines 62-68: the warning, then either on to the sleep or the error line and 503
Handler(c) ==
    /\ pc[c] = "except"
    /\ IF ShouldSleep(attempt[c])
       THEN /\ log' = [log EXCEPT ![c] =
                         Append(@, LogEntry("warning", "Database connection attempt failed",
                                            attempt[c] + 1, E(c)))]
            /\ pc' = [pc EXCEPT ![c] = "sleep"]
            /\ resp' = resp
       ELSE /\ log' = [log EXCEPT ![c] =
                         Append(Append(@, LogEntry("warning",
                                                   "Database connection attempt failed",
                                                   attempt[c] + 1, E(c))),
                                LogEntry("error", "All connection attempts failed",
                                         max_retries, ""))]
            /\ pc' = [pc EXCEPT ![c] = "done"]
            /\ resp' = [resp EXCEPT ![c] =
                          Resp(503, "Database connection failed after attempts: ",
                               max_retries, E(c))]
    /\ UNCHANGED <<inputs, consumer, caller, locals, exc, conns, store, outcome, sleeps, faults>>

\* a loop counter kept in a module global that every call advances
Backoff_Shared(c) ==
    /\ pc[c] = "sleep"
    /\ sleeps' = [sleeps EXCEPT ![c] = Append(@, BackoffDelay(attempt[c]))]
    /\ attempt' = [d \in Calls |-> IF attempt[d] + 1 < max_retries
                                     THEN attempt[d] + 1 ELSE attempt[d]]
    /\ pc' = [pc EXCEPT ![c] = IF attempt[c] + 1 < max_retries THEN "connect" ELSE "done"]
    /\ UNCHANGED <<inputs, consumer, caller, task_text, descriptor, exc, conns, store, outcome, resp, log, faults>>

\* line 65 and the loop head of line 43: the sleep returns, the next pass
\* starts; a loop that runs out ends main without a response
Backoff(c) ==
    /\ pc[c] = "sleep"
    /\ sleeps' = [sleeps EXCEPT ![c] = Append(@, BackoffDelay(attempt[c]))]
    /\ attempt' = [attempt EXCEPT ![c] = @ + 1]
    /\ pc' = [pc EXCEPT ![c] = IF attempt[c] + 1 < max_retries THEN "connect" ELSE "done"]
    /\ UNCHANGED <<inputs, consumer, caller, task_text, descriptor, exc, conns, store, outcome, resp, log, faults>>

Next ==
    \E c \in Calls :
        \/ Receive(c)
        \/ Validate(c)
        \/ Configure(c)
        \/ Connect(c)
        \/ ConnectFail(c)
        \/ Execute(c)
        \/ ExecuteFail(c)
        \/ Commit(c)
        \/ CommitFail(c)
        \/ Close(c)
        \/ CloseFail(c)
        \/ Succeed(c)
        \/ Handler(c)
        \/ Backoff(c)

Spec == Init /\ [][Next]_vars

\* line 10: logging.info raises before the try block; the exception leaves main
ReceiveLogFail(c) ==
    /\ pc[c] = "start"
    /\ pc' = [pc EXCEPT ![c] = "raised"]
    /\ exc' = [exc EXCEPT ![c] = ErrorOf("log")]
    /\ UNCHANGED <<inputs, consumer, caller, locals, conns, store, outcome, sleeps, resp, log, faults>>

\* line 59: logging.info raises inside the try block, after commit and close
SucceedLogFail(c) ==
    /\ pc[c] = "succeed"
    /\ Fail(c, "log")
    /\ UNCHANGED <<inputs, consumer, caller, locals, conns, store, sleeps, resp, log>>

\* line 63: logging.warning raises inside the except clause; the exception leaves main
WarningLogFail(c) ==
    /\ pc[c] = "except"
    /\ pc' = [pc EXCEPT ![c] = "raised"]
    /\ exc' = [exc EXCEPT ![c] = ErrorOf("log")]
    /\ UNCHANGED <<inputs, consumer, caller, locals, conns, store, outcome, sleeps, resp, log, faults>>

\* line 67: logging.error raises after the warning of the last pass was written
ErrorLogFail(c) ==
    /\ pc[c] = "except"
    /\ ~ShouldSleep(attempt[c])
    /\ log' = [log EXCEPT ![c] =
                 Append(@, LogEntry("warning", "Database connection attempt failed",
                                    attempt[c] + 1, E(c)))]
    /\ pc' = [pc EXCEPT ![c] = "raised"]
    /\ exc' = [exc EXCEPT ![c] = ErrorOf("log")]
    /\ UNCHANGED <<inputs, consumer, caller, locals, conns, store, outcome, sleeps, resp, faults>>

NextLog ==
    \/ Next
    \/ \E c \in Calls :
        \/ ReceiveLogFail(c)
        \/ SucceedLogFail(c)
        \/ WarningLogFail(c)
        \/ ErrorLogFail(c)

\* one call in flight; the logging calls may raise as well as the store
SpecLog == Init /\ [][NextLog]_vars

\* NCalls concurrent calls with valid requests and a valid configuration;
\* the store fails at most MaxFaults times
InitConc ==
    /\ \E b \in ValidBodies :
          body = [c \in Calls |-> IF c = 1 THEN b ELSE Body("object", TRUE, Str("a"))]
    /\ env = EnvSet(ValidConnStr)
    /\ InitCall(Calls)
    /\ faults = MaxFaults
    /\ ConsumerIdle
    /\ ClientIdle

SpecConc == InitConc /\ [][Next]_vars

\* the bodies of the first of the concurrent calls: no JSON, no task, an
\* empty task, a task
FrameBodies ==
    {Body("garbage", FALSE, Null), Body("object", FALSE, Null),
     Body("object", TRUE, Str("")), Body("object", TRUE, Str("a"))}

\* a connection string without its password field
NoPwdConnStr ==
    <<KServer, "h", ",", "1", "4", "3", "3", ";", KDb, "d", ";", KUser, "u", ";">>

\* NCalls concurrent calls, the first with any kind of request, under a
\* valid or an invalid configuration; the store fails at most MaxFaults times
InitFrame ==
    /\ \E b \in FrameBodies :
          body = [c \in Calls |-> IF c = 1 THEN b ELSE Body("object", TRUE, Str("a"))]
    /\ env \in {EnvSet(ValidConnStr), EnvSet(NoPwdConnStr)}
    /\ InitCall(Calls)
    /\ faults = MaxFaults
    /\ ConsumerIdle
    /\ ClientIdle

SpecFrame == InitFrame /\ [][Next]_vars

\* ------------------------------------------------------ change consumer
\* The text of a batch is a sequence of tokens: "[" and "]", one token per
\* array element, or one token for a scalar or an object.
RecordTokens == {"r1", "r2"}
ItemTokens == RecordTokens \cup {"7"}
ScalarTokens == {"null", "0", "7", "{}", "{Id:1}", "str"}

\* the objects the record tokens stand for; r2 has no "Processed" key
Item(obj, id, payload, processed) ==
    [obj |-> obj, Id |-> id, Payload |-> payload, Processed |-> processed]
ItemOf(tok) ==
    CASE tok = "r1" -> Item(TRUE, "1", "a", "False")
      [] tok = "r2" -> Item(TRUE, "2", "b", "None")
      [] OTHER -> Item(FALSE, "", "", "")

Arrays ==
    UNION {{<<"[">> \o m \o <<"]">> : m \in [1..n -> ItemTokens]} : n \in 0..MaxItems}

RawBatches ==
    Arrays \cup {<<s>> : s \in ScalarTokens} \cup {<<"nope">>, <<"[", "r1">>}

Parsed(ok, kind, truthy, items) ==
    [ok |-> ok, kind |-> kind, truthy |-> truthy, items |-> items]

\* json.loads(changes): an array, a scalar or an object; anything else raises
JsonLoads(raw) ==
    IF Len(raw) = 1 /\ raw[1] \in ScalarTokens
    THEN CASE raw[1] = "null" -> Parsed(TRUE, "null", FALSE, <<>>)
           [] raw[1] = "0" -> Parsed(TRUE, "number", FALSE, <<>>)
           [] raw[1] = "7" -> Parsed(TRUE, "number", TRUE, <<>>)
           [] raw[1] = "{}" -> Parsed(TRUE, "object", FALSE, <<>>)
           [] raw[1] = "{Id:1}" -> Parsed(TRUE, "object", TRUE, <<>>)
           [] OTHER -> Parsed(TRUE, "string", TRUE, <<>>)
    ELSE IF /\ Len(raw) >= 2
            /\ raw[1] = "["
            /\ raw[Len(raw)] = "]"
            /\ \A i \in 2..(Len(raw) - 1) : raw[i] \in ItemTokens
         THEN Parsed(TRUE, "array", Len(raw) > 2,
                     [i \in 1..(Len(raw) - 2) |-> ItemOf(raw[i + 1])])
         ELSE Parsed(FALSE, "", FALSE, <<>>)

TEntry(level, msg, it, err, raw) ==
    [level |-> level, msg |-> msg, Id |-> it.Id, Payload |-> it.Payload,
     Processed |-> it.Processed, err |-> err, raw |-> raw]
NoItem == Item(FALSE, "", "", "")

\* an except clause that logs the error only
ErrPair_NoRaw(err, raw) ==
    << TEntry("error", "Error parsing SQL trigger input", NoItem, err, <<>>) >>

\* lines 14-16: the error line, then the raw content
ErrPair(err, raw) ==
    << TEntry("error", "Error parsing SQL trigger input", NoItem, err, <<>>),
       TEntry("error", "Raw content", NoItem, "", raw) >>

\* a loop that walks the batch from its end
LoopEntries_Reversed(items) ==
    [i \in 1..Len(items) |->
        TEntry("info", "SQL Trigger fired: Id, Payload, Processed",
               items[Len(items) + 1 - i], "", <<>>)]

\* lines 10-11: one line per element, with item.get of the three keys
LoopEntries(items) ==
    [i \in 1..Len(items) |->
        TEntry("info", "SQL Trigger fired: Id, Payload, Processed", items[i], "", <<>>)]

\* the index of the first array element that is no object, or Len + 1
FirstNonObject(items) ==
    LET bad == {i \in 1..Len(items) : ~items[i].obj}
    IN IF bad = {} THEN Len(items) + 1 ELSE Min(bad)

\* lines 5-16: the logging calls main makes for one batch
TriggerLog(raw) ==
    LET v == JsonLoads(raw)
        fired == << TEntry("info", "SQL Trigger fired.", NoItem, "", <<>>) >>
    IN fired \o
       (IF ~v.ok THEN ErrPair("JSONDecodeError", raw)
        ELSE IF ~v.truthy
        THEN << TEntry("info", "SQL Trigger fired but no changes detected.",
                       NoItem, "", <<>>) >>
        ELSE IF v.kind = "number" THEN ErrPair("TypeError", raw)
        ELSE IF v.kind # "array" THEN ErrPair("AttributeError", raw)
        ELSE LET n == FirstNonObject(v.items)
             IN LoopEntries(SubSeq(v.items, 1, n - 1))
                \o (IF n <= Len(v.items) THEN ErrPair("AttributeError", raw) ELSE <<>>))

\* SqlTriggerBinding main: the change feed delivers the next batch
TriggerMain ==
    /\ feed # <<>>
    /\ seen' = Append(seen, Head(feed))
    /\ tlog' = Append(tlog, TriggerLog(Head(feed)))
    /\ feed' = Tail(feed)
    /\ UNCHANGED <<endpoint, caller>>

\* no request is in flight; the change feed holds up to MaxBatches batches
InitTrigger ==
    /\ body = [c \in Calls |-> Body("garbage", FALSE, Null)]
    /\ env = EnvAbsent
    /\ InitCall({})
    /\ faults = 0
    /\ feed \in UNION {[1..n -> RawBatches] : n \in 1..MaxBatches}
    /\ seen = <<>>
    /\ tlog = <<>>
    /\ ClientIdle

NextTrigger == TriggerMain

SpecTrigger == InitTrigger /\ [][NextTrigger]_vars

\* ----------------------------------------------------- load-test client
\* send_request of test_workflow.py: a loop of POSTs to the endpoint.
\* The outcome of a POST: still awaited, a response with its status,
\* requests.exceptions.Timeout, or another exception of the transport.
Pending == [kind |-> "pending", status |-> 0]
Response(s) == [kind |-> "response", status |-> s]
TimedOut == [kind |-> "timeout", status |-> 0]
Errored == [kind |-> "error", status |-> 0]

\* the statuses a response may carry
Statuses == {200, 204, 400, 404, 500, 503}

\* the outcome of the POST in flight becomes known
Settle(o) == [posts EXCEPT ![Len(posts)] = o]

\* line 62: success or a 4xx status
ReturnsAtOnce(s) == s = 200 \/ (400 <= s /\ s < 500)

\* lines 66, 73 and 88: attempts remain
AttemptsRemain(a, m) == a < m - 1

\* lines 67, 74 and 89: the argument of time.sleep, in tenths
ClientDelay(a) == 5 * (a + 1)

\* lines 38-45: the loop head and requests.post
PostStep ==
    /\ cl_pc = "loop"
    /\ cl_attempt < cl_max_retries
    /\ posts' = Append(posts, Pending)
    /\ cl_pc' = "wait"
    /\ UNCHANGED <<cl_max_retries, cl_attempt, cl_sleeps, result>>

\* lines 46-70: a response arrives
RespondStep(s) ==
    /\ cl_pc = "wait"
    /\ posts' = Settle(Response(s))
    /\ IF ReturnsAtOnce(s) \/ ~AttemptsRemain(cl_attempt, cl_max_retries)
       THEN /\ result' = Result("response", s, cl_attempt + 1)
            /\ cl_pc' = "returned"
       ELSE /\ result' = result
            /\ cl_pc' = "sleep"
    /\ UNCHANGED <<cl_max_retries, cl_attempt, cl_sleeps>>

\* lines 72-101: requests.post raises Timeout or another exception
ExceptStep(o) ==
    /\ cl_pc = "wait"
    /\ posts' = Settle(o)
    /\ IF AttemptsRemain(cl_attempt, cl_max_retries)
       THEN /\ result' = result
            /\ cl_pc' = "sleep"
       ELSE /\ result' = Result(o.kind, 0, cl_attempt + 1)
            /\ cl_pc' = "returned"
    /\ UNCHANGED <<cl_max_retries, cl_attempt, cl_sleeps>>

\* lines 67-68, 74-75 and 89-90: the sleep returns and the loop continues
SleepStep ==
    /\ cl_pc = "sleep"
    /\ cl_sleeps' = Append(cl_sleeps, ClientDelay(cl_attempt))
    /\ cl_attempt' = cl_attempt + 1
    /\ cl_pc' = "loop"
    /\ UNCHANGED <<cl_max_retries, posts, result>>

\* line 38 with an empty range: the function ends without a return statement
FallOffStep ==
    /\ cl_pc = "loop"
    /\ ~(cl_attempt < cl_max_retries)
    /\ cl_pc' = "returned"
    /\ UNCHANGED <<cl_max_retries, cl_attempt, posts, cl_sleeps, result>>

\* send_request against any server
Post == PostStep /\ UNCHANGED <<endpoint, consumer, abandonedAt>>

Respond(s) == RespondStep(s) /\ UNCHANGED <<endpoint, consumer, abandonedAt>>

Timeout == ExceptStep(TimedOut) /\ UNCHANGED <<endpoint, consumer, abandonedAt>>

TransportError == ExceptStep(Errored) /\ UNCHANGED <<endpoint, consumer, abandonedAt>>

Sleep == SleepStep /\ UNCHANGED <<endpoint, consumer, abandonedAt>>

FallOff == FallOffStep /\ UNCHANGED <<endpoint, consumer, abandonedAt>>

\* send_request starts with the given argument
ClientStarts(m) ==
    /\ cl_max_retries = m
    /\ cl_pc = "loop"
    /\ cl_attempt = 0
    /\ posts = <<>>
    /\ cl_sleeps = <<>>
    /\ result = NoResult
    /\ abandonedAt = [c \in Calls |-> ""]

\* one send_request with any max_retries up to MaxClientRetries; the server
\* answers each POST with any status, or the transport fails
InitClient ==
    /\ body = [c \in Calls |-> Body("object", TRUE, Str("a"))]
    /\ env = EnvSet(ValidConnStr)
    /\ InitCall({})
    /\ faults = 0
    /\ feed = <<>>
    /\ seen = <<>>
    /\ tlog = <<>>
    /\ \E m \in 0..MaxClientRetries : ClientStarts(m)

NextClient ==
    \/ Post
    \/ \E s \in Statuses : Respond(s)
    \/ Timeout
    \/ TransportError
    \/ Sleep
    \/ FallOff

SpecClient == InitClient /\ [][NextClient]_vars

\* the call that serves the POST in flight
Serving == Len(posts)

\* send_request against the endpoint: the POST starts a call of main
LoadPost ==
    /\ PostStep
    /\ Len(posts) + 1 \in Calls
    /\ pc' = [pc EXCEPT ![Len(posts) + 1] = "start"]
    /\ UNCHANGED <<inputs, consumer, locals, exc, conns, store, outcome, sleeps, resp, log,
                   faults, abandonedAt>>

\* the call has returned: its response reaches send_request
LoadRespond ==
    /\ cl_pc = "wait"
    /\ pc[Serving] = "done"
    /\ RespondStep(resp[Serving].status)
    /\ UNCHANGED <<endpoint, consumer, abandonedAt>>

\* the positions of the retry loop of main (lines 43-68)
InPersist == {"connect", "execute", "commit", "close", "succeed", "except", "sleep"}

\* the timeout of line 44 expires, or the transport fails, while the call is
\* in its retry loop: send_request stops waiting for it
LoadGiveUp(o) ==
    /\ cl_pc = "wait"
    /\ pc[Serving] \in InPersist
    /\ ExceptStep(o)
    /\ abandonedAt' = [abandonedAt EXCEPT ![Serving] = pc[Serving]]
    /\ UNCHANGED <<endpoint, consumer>>

LoadTimeout == LoadGiveUp(TimedOut)

LoadTransportError == LoadGiveUp(Errored)

\* send_request with its default max_retries (line 34) sends a valid task to
\* the endpoint under a valid configuration; the store fails at most
\* MaxFaults times
InitLoad ==
    /\ body = [c \in Calls |-> Body("object", TRUE, Str("a"))]
    /\ env = EnvSet(ValidConnStr)
    /\ InitCall({})
    /\ faults = MaxFaults
    /\ feed = <<>>
    /\ seen = <<>>
    /\ tlog = <<>>
    /\ ClientStarts(2)

NextLoad ==
    \/ Next
    \/ LoadPost
    \/ LoadRespond
    \/ LoadTimeout
    \/ LoadTransportError
    \/ Sleep

SpecLoad == InitLoad /\ [][NextLoad]_vars

\* ------------------------------------------------------------ properties
RowsOf(c) == {r \in rows : r.call = c}

\* row r carries the text call c submitted
CarriesPayload(r, c) == body[c].task.ty = "str" => r.Payload = body[c].task.v

\* connections call c opened and did not close
Leaked(c) == opened[c] \ closed[c]

\* call c has not touched the store: no connect was tried, nothing was inserted
NoPersistence(c) ==
    /\ outcome[c] = <<>>
    /\ opened[c] = {}
    /\ pendingTx[c] = {}
    /\ RowsOf(c) = {}
    /\ sleeps[c] = <<>>
    /\ pc[c] \notin {"connect", "execute", "commit", "close", "succeed", "except", "sleep"}

IsValidBody(b) == b.kind = "object" /\ b.has /\ Truthy(b.task)

Failed(c) == {i \in 1..Len(outcome[c]) : ~outcome[c][i].ok}

RECURSIVE SumSeq(_)
SumSeq(s) == IF s = <<>> THEN 0 ELSE s[1] + SumSeq(Tail(s))

\* C1: when a call has returned, either the response is 200 and exactly one
\* row with the call's payload was committed by it, or the response is
\* 400, 500 or 503 and no row was committed by it.
C1_OneRowOrError ==
    \A c \in Calls :
        pc[c] = "done" =>
            \/ /\ resp[c].status = 200
               /\ Cardinality(RowsOf(c)) = 1
               /\ \A r \in RowsOf(c) : CarriesPayload(r, c)
            \/ /\ resp[c].status \in {400, 500, 503}
               /\ RowsOf(c) = {}

\* C2: a body that is no JSON gets 400 "Invalid JSON" and the call never
\* touches the store, under every configuration.
C2_InvalidJson ==
    \A c \in Calls :
        body[c].kind = "garbage" =>
            /\ pc[c] \in {"idle", "start", "done"}
            /\ NoPersistence(c)
            /\ pc[c] = "done" => resp[c] = Resp(400, "Invalid JSON", 0, "")

C2_Witness ==
    \E c \in Calls :
        /\ body[c].kind = "garbage"
        /\ pc[c] = "done"
        /\ resp[c].status = 400
        /\ ~env.set

\* C3: a body that is JSON but carries no non-empty task (absent, empty, or
\* the value is no object) gets 400 "Missing 'task'" and the call never
\* touches the store.
C3_MissingTask ==
    \A c \in Calls :
        (body[c].kind # "garbage" /\ ~IsValidBody(body[c])) =>
            /\ pc[c] \in {"idle", "start", "validate", "done"}
            /\ NoPersistence(c)
            /\ pc[c] = "done" => resp[c] = Resp(400, "Missing 'task'", 0, "")

\* a required field is lacking: its key does not occur, or no value follows it
ValueEmpty(s, key) ==
    \A i \in 1..Len(s) : s[i] = key => (i = Len(s) \/ s[i + 1] = ";")

\* the server field lacks its host or its port
LacksServer(s) ==
    \A i \in 1..Len(s) :
        s[i] = KServer =>
            \/ i = Len(s)
            \/ s[i + 1] = ","
            \/ ~\E j \in (i + 1)..(Len(s) - 1) : s[j] = "," /\ s[j + 1] \in Digits

LacksRequired(s) ==
    \/ LacksServer(s)
    \/ ValueEmpty(s, KDb)
    \/ ValueEmpty(s, KUser)
    \/ ValueEmpty(s, KPwd)

C5_SucceedsOnKth ==
    \A c \in Calls :
        (outcome[c] # <<>> /\ outcome[c][Len(outcome[c])].ok) =>
            LET k == Len(outcome[c])
            IN /\ k <= 3
               /\ \A i \in 1..(k - 1) : ~outcome[c][i].ok
               /\ \A i \in 1..k : outcome[c][i].n = i
               /\ attempt[c] + 1 = k
               /\ Cardinality(opened[c]) <= k
               /\ sleeps[c] = SubSeq(<<5, 10>>, 1, k - 1)
               /\ pc[c] = "done"
               /\ resp[c].status = 200

C5_Witness ==
    \E c \in Calls :
        /\ Len(outcome[c]) = 3
        /\ outcome[c][3].ok
        /\ pc[c] = "done"
        /\ sleeps[c] = <<5, 10>>

\* C6: when all three passes failed the response is 503 and its body carries
\* the attempt count 3 and the error of the third pass; 503 is returned in
\* no other case.
C6_Exhausted ==
    \A c \in Calls :
        /\ (Len(outcome[c]) = 3 /\ Failed(c) = {1, 2, 3} /\ pc[c] # "except") =>
               /\ pc[c] = "done"
               /\ resp[c] = Resp(503, "Database connection failed after attempts: ",
                                 3, outcome[c][3].err)
        /\ resp[c].status = 503 => (Len(outcome[c]) = 3 /\ Failed(c) = {1, 2, 3})

C6_Witness ==
    \E c \in Calls :
        /\ pc[c] = "done"
        /\ resp[c].status = 503
        /\ outcome[c][1].err # outcome[c][3].err
        /\ outcome[c][2].err # outcome[c][3].err

\* C7: no connection of a call is open when its next pass starts or when
\* the call has returned.
C7_ScopedAcquisition ==
    \A c \in Calls :
        /\ pc[c] = "connect" => Leaked(c) = {}
        /\ pc[c] = "done" => Leaked(c) = {}

\* C8: the insert of a pass whose commit failed is visible in no state.
C8_NoPartialWrite ==
    \A c \in Calls :
        /\ \A i \in Failed(c) :
               outcome[c][i].step = "commit" =>
                   \A r \in rows : ~(r.call = c /\ r.attempt = outcome[c][i].n)
        /\ \A r \in pendingTx[c] : \A q \in rows : q.Id # r.Id

C8_Witness ==
    \E c \in Calls :
        /\ pc[c] = "done"
        /\ \E i \in Failed(c) : outcome[c][i].step = "commit"
        /\ pendingTx[c] # {}

\* no store operation has failed so far
NoStoreFault == \A c \in Calls : Failed(c) = {}

\* C9: when the store does not fail, every one of the concurrent calls ends
\* with a 200 response and exactly one committed row with its payload, and
\* the table holds as many rows as there are calls.
C9_ConcurrentSubmissions ==
    NoStoreFault =>
        /\ \A c \in Calls : Cardinality(RowsOf(c)) <= 1
        /\ (\A c \in Calls : pc[c] = "done") =>
               /\ \A c \in Calls :
                      /\ resp[c].status = 200
                      /\ Cardinality(RowsOf(c)) = 1
                      /\ \A r \in RowsOf(c) : CarriesPayload(r, c)
               /\ Cardinality(rows) = NCalls
               /\ \A r, q \in rows : r.Id = q.Id => r = q

C9_Witness ==
    /\ NoStoreFault
    /\ \A c \in Calls : pc[c] = "done" /\ resp[c].status = 200
    /\ \E c, d \in Calls : c # d /\ body[c] = body[d]

\* C10: a call makes at most 3 passes; the i-th sleep follows the failed
\* pass i, which is not the last, and lasts 0.5 * i; nothing sleeps after a
\* success or after the third failure, so the sleeps total at most 1.5.
C10_RetryBounds ==
    \A c \in Calls :
        /\ Len(outcome[c]) <= 3
        /\ opened[c] \subseteq 1..3
        /\ attempt[c] + 1 <= 3
        /\ Len(sleeps[c]) = attempt[c]
        /\ \A i \in 1..Len(sleeps[c]) :
               /\ i < 3
               /\ sleeps[c][i] = 5 * i
               /\ i \in Failed(c)
               /\ outcome[c][i].n = i
        /\ pc[c] = "done" => Len(sleeps[c]) = Cardinality(Failed(c) \ {3})
        /\ SumSeq(sleeps[c]) <= 15

C10_Witness ==
    \E c \in Calls :
        /\ pc[c] = "done"
        /\ Failed(c) = {1, 2, 3}
        /\ sleeps[c] = <<5, 10>>
        /\ SumSeq(sleeps[c]) = 15

\* C11: a logging call that raises changes nothing: the exception never
\* leaves main, and a call whose success line could not be written still
\* returns 200 after that same pass with its one row.
C11_LoggingObservational ==
    \A c \in Calls :
        /\ ~(pc[c] = "raised" /\ exc[c] = ErrorOf("log"))
        /\ \A i \in 1..Len(outcome[c]) :
               outcome[c][i].step = "log" =>
                   /\ pc[c] = "done"
                   /\ resp[c].status = 200
                   /\ Len(outcome[c]) = i
                   /\ Cardinality(RowsOf(c)) = 1

\* the log line of pass i of call c: the line after the "received" line and
\* the lines of the earlier passes
AttemptLine(c, i) == log[c][1 + i]

\* the line of pass i carries the 1-based number and the outcome of the pass
LineMatches(c, i) ==
    /\ AttemptLine(c, i).n = i
    /\ IF outcome[c][i].ok
       THEN /\ AttemptLine(c, i).level = "info"
            /\ AttemptLine(c, i).msg = "Task inserted successfully"
       ELSE /\ AttemptLine(c, i).level = "warning"
            /\ AttemptLine(c, i).msg = "Database connection attempt failed"
            /\ AttemptLine(c, i).err = outcome[c][i].err

\* C12 as stated: a call that went through the retry loop and returned has
\* written one line per pass and, after the last of them, one more line.
C12_LinePerAttemptPlusTerminal ==
    \A c \in Calls :
        (pc[c] = "done" /\ outcome[c] # <<>>) =>
            LET k == Len(outcome[c])
            IN /\ Len(log[c]) = 1 + k + 1
               /\ \A i \in 1..k : LineMatches(c, i)

\* C12 amended: one line per pass, in order, with the 1-based number and the
\* outcome; after three failures the error line follows the third warning;
\* after a success the line of the successful pass is the last line.
C12_LinePerAttempt ==
    \A c \in Calls :
        (pc[c] = "done" /\ outcome[c] # <<>>) =>
            LET k == Len(outcome[c])
            IN /\ Len(log[c]) >= 1 + k
               /\ log[c][1].msg = "HTTP trigger received a request."
               /\ \A i \in 1..k : LineMatches(c, i)
               /\ IF outcome[c][k].ok
                  THEN Len(log[c]) = 1 + k
                  ELSE /\ k = 3
                       /\ Len(log[c]) = 1 + k + 1
                       /\ log[c][k + 2].level = "error"
                       /\ log[c][k + 2].msg = "All connection attempts failed"
                       /\ log[c][k + 2].n = 3

C12_Witness ==
    \E c \in Calls :
        /\ pc[c] = "done"
        /\ resp[c].status = 200
        /\ Len(outcome[c]) = 3
        /\ Len(log[c]) = 4

\* C13 as stated: the 200 body echoes exactly the submitted task value and
\* the committed row holds that same value.
C13_EchoesSubmittedValue ==
    \A c \in Calls :
        (pc[c] = "done" /\ resp[c].status = 200) =>
            /\ resp[c].msg = "Task added: "
            /\ resp[c].detail = body[c].task.v
            /\ RowsOf(c) # {}
            /\ \A r \in RowsOf(c) : r.Payload = body[c].task.v

\* C13 amended: the echo and the row equal the submitted value when the
\* task is a JSON string.
C13_EchoesSubmittedString ==
    \A c \in Calls :
        (pc[c] = "done" /\ resp[c].status = 200) =>
            /\ resp[c].msg = "Task added: "
            /\ RowsOf(c) # {}
            /\ body[c].task.ty = "str" =>
                   /\ resp[c].detail = body[c].task.v
                   /\ \A r \in RowsOf(c) : r.Payload = body[c].task.v

C13_Witness ==
    \E c \in Calls :
        /\ pc[c] = "done"
        /\ resp[c].status = 200
        /\ body[c].task = Str("a")
        /\ resp[c].detail = "a"
        /\ \E r \in RowsOf(c) : r.Payload = "a"

\* everything main keeps for call c: its locals, its connections, its
\* attempt history, its sleeps, its log lines and its response
Own(c) ==
    <<pc[c], task_text[c], descriptor[c], attempt[c], exc[c], opened[c], closed[c],
      outcome[c], sleeps[c], resp[c], log[c]>>

\* what the request and the outcomes of the call's own store operations
\* determine: the number of sleeps, their durations and the response
OwnResult(c) ==
    LET k == Len(outcome[c])
    IN /\ attempt[c] + 1 = k
       /\ sleeps[c] = [i \in 1..(k - 1) |-> 5 * i]
       /\ \A i \in 1..(k - 1) : ~outcome[c][i].ok
       /\ resp[c] = IF outcome[c][k].ok
                    THEN Resp(200, "Task added: ", 0, Format(body[c].task))
                    ELSE Resp(503, "Database connection failed after attempts: ",
                              3, outcome[c][k].err)

\* C14: a step of one call changes nothing that main keeps for another call,
\* and the attempts, sleeps and response of a returned call are those its own
\* request and its own store outcomes determine.
C14_CallsIndependent ==
    /\ [][\A c, d \in Calls : (c # d /\ Own(c)' # Own(c)) => Own(d)' = Own(d)]_vars
    /\ [](\A c \in Calls : pc[c] = "done" => OwnResult(c))

C14_Witness ==
    \E c, d \in Calls :
        /\ c # d
        /\ pc[c] = "sleep"
        /\ Failed(c) = {1}
        /\ pc[d] = "done"
        /\ resp[d].status = 200
        /\ sleeps[d] = <<>>

\* the batch is a JSON array whose elements are all change records
IsRecordArray(raw) ==
    /\ Len(raw) >= 2
    /\ raw[1] = "["
    /\ raw[Len(raw)] = "]"
    /\ \A i \in 2..(Len(raw) - 1) : raw[i] \in RecordTokens

IsRecordLine(e) == e.msg = "SQL Trigger fired: Id, Payload, Processed"

\* C15: for an array of change records the consumer writes one line per
\* record, in batch order, with the record's Id, Payload and Processed; for
\* the empty array it writes no such line but the "no changes detected" line.
C15_LinePerRecord ==
    \A k \in 1..Len(seen) :
        IsRecordArray(seen[k]) =>
            LET n == Len(seen[k]) - 2
                lines == tlog[k]
            IN /\ lines[1].msg = "SQL Trigger fired."
               /\ \A i \in 1..Len(lines) : lines[i].level = "info"
               /\ IF n = 0
                  THEN /\ Len(lines) = 2
                       /\ lines[2].msg = "SQL Trigger fired but no changes detected."
                  ELSE /\ Len(lines) = 1 + n
                       /\ \A i \in 1..n :
                              /\ IsRecordLine(lines[1 + i])
                              /\ lines[1 + i].Id = ItemOf(seen[k][1 + i]).Id
                              /\ lines[1 + i].Payload = ItemOf(seen[k][1 + i]).Payload
                              /\ lines[1 + i].Processed = ItemOf(seen[k][1 + i]).Processed

C15_Witness ==
    \E k, j \in 1..Len(seen) :
        /\ seen[k] = <<"[", "r1", "r2", "]">>
        /\ Len(tlog[k]) = 3
        /\ seen[j] = <<"[", "]">>
        /\ Len(tlog[j]) = 2

\* the log of batch k ends with the error line and then the raw content
EndsWithErrorAndRaw(k) ==
    LET n == Len(tlog[k])
    IN /\ n >= 3
       /\ tlog[k][n - 1].level = "error"
       /\ tlog[k][n - 1].msg = "Error parsing SQL trigger input"
       /\ tlog[k][n].level = "error"
       /\ tlog[k][n].msg = "Raw content"
       /\ tlog[k][n].raw = seen[k]

\* every delivered batch was handled, and the same batch always gets the same log
HandledInIsolation ==
    /\ Len(tlog) = Len(seen)
    /\ \A k, j \in 1..Len(seen) : seen[k] = seen[j] => tlog[k] = tlog[j]

\* C16 as stated: every batch that is no array of change records is logged
\* as an error followed by its raw content, and no batch affects a later one.
C16_MalformedLogged ==
    /\ HandledInIsolation
    /\ \A k \in 1..Len(seen) : ~IsRecordArray(seen[k]) => EndsWithErrorAndRaw(k)

\* JSON values that Python takes as false
FalsyJson == {<<"null">>, <<"0">>, <<"{}">>}

\* C16 amended: as stated, except that a batch whose JSON value is falsy is
\* logged as "no changes detected".
C16_MalformedTruthyLogged ==
    /\ HandledInIsolation
    /\ \A k \in 1..Len(seen) :
           ~IsRecordArray(seen[k]) =>
               IF seen[k] \in FalsyJson
               THEN /\ Len(tlog[k]) = 2
                    /\ tlog[k][2].msg = "SQL Trigger fired but no changes detected."
               ELSE EndsWithErrorAndRaw(k)

C16_Witness ==
    /\ Len(seen) = 2
    /\ seen[1] = <<"[", "r1", "7", "]">>
    /\ Len(tlog[1]) = 4
    /\ seen[2] = <<"[", "r1", "]">>
    /\ Len(tlog[2]) = 2

\* C17: over all passes of one call at most one commit succeeds: once a
\* pass has committed, no later pass of the call inserts again, whatever
\* fails after the commit (the close, the success log line).
C17_AtMostOneCommit ==
    \A c \in Calls :
        /\ Cardinality(RowsOf(c)) <= 1
        /\ \A r \in RowsOf(c) : \A q \in pendingTx[c] : q.attempt <= r.attempt

\* C18: a valid request under an absent environment entry gets the 500
\* response, and the call never touches the store and does not retry.
C18_AbsentConfig ==
    \A c \in Calls :
        (IsValidBody(body[c]) /\ ~env.set) =>
            /\ pc[c] \in {"idle", "start", "validate", "configure", "done"}
            /\ NoPersistence(c)
            /\ pc[c] = "done" => resp[c].status = 500

\* C19: an invalid request (no JSON, or no non-empty task) gets 400 under
\* every configuration, and 500 is returned only to requests that passed
\* validation.
C19_ValidationFirst ==
    \A c \in Calls :
        /\ ~IsValidBody(body[c]) =>
               /\ pc[c] \in {"idle", "start", "validate", "done"}
               /\ pc[c] = "done" => resp[c].status = 400
        /\ resp[c].status = 500 => IsValidBody(body[c])

\* C20: a call ends only by returning one response; for a call that went
\* through the retry loop the response is 200 exactly when its last pass
\* succeeded and 503 exactly when that pass was the third and failed, and
\* no pass follows the response.
C20_LastAttemptDecides ==
    \A c \in Calls :
        /\ pc[c] # "raised"
        /\ pc[c] = "done" => resp[c].status \in {200, 400, 500, 503}
        /\ (pc[c] = "done" /\ outcome[c] # <<>>) =>
               LET k == Len(outcome[c])
               IN /\ resp[c].status = 200 <=> outcome[c][k].ok
                  /\ resp[c].status = 503 <=> (k = 3 /\ ~outcome[c][k].ok)
                  /\ attempt[c] + 1 = k
        /\ resp[c] # NoResp => pc[c] = "done"

\* call c returns, in this step, a response of one of the given statuses
Returns(c, statuses) ==
    /\ pc[c] # "done"
    /\ pc'[c] = "done"
    /\ resp'[c].status \in statuses

\* C21: no step of the endpoint deletes a committed row or changes its id
\* or payload; the step by which a call returns 400 or 500 leaves the store
\* as it is, and such a call has not touched the store before.
C21_AppendOnly ==
    /\ [][/\ \A r \in rows : r \in rows'
          /\ \A r \in rows' \ rows : \A q \in rows : q.Id # r.Id
          /\ \A c \in Calls : Returns(c, {400, 500}) => UNCHANGED store]_vars
    /\ [](\A c \in Calls :
              (pc[c] = "done" /\ resp[c].status \in {400, 500}) => NoPersistence(c))

C21_Witness ==
    \E c, d \in Calls :
        /\ pc[c] = "done"
        /\ resp[c].status = 400
        /\ pc[d] = "done"
        /\ Cardinality(RowsOf(d)) = 2

\* the step main takes next when the store does not fail
NormalStep(c) ==
    \/ Receive(c)
    \/ Validate(c)
    \/ Configure(c)
    \/ Connect(c)
    \/ Execute(c)
    \/ Commit(c)
    \/ Close(c)
    \/ Succeed(c)
    \/ Handler(c)
    \/ Backoff(c)

\* the caller of call c stopped waiting while the call was running
Abandoned(c) == abandonedAt[c] # ""

\* C22: the step by which the caller stops waiting changes nothing of the
\* endpoint; the abandoned call can still take each of its steps, and it ends
\* with the passes, sleeps and response its own request and store outcomes
\* determine, its row committed when that response is 200.
C22_NoCancellation ==
    /\ [][(\E c \in Calls : abandonedAt'[c] # abandonedAt[c]) => UNCHANGED endpoint]_vars
    /\ [](\A c \in Calls :
              Abandoned(c) =>
                  /\ pc[c] # "done" => ENABLED NormalStep(c)
                  /\ pc[c] = "done" =>
                         /\ OwnResult(c)
                         /\ resp[c].status = 200 => RowsOf(c) # {})

\* the caller gave up before the commit, in a call without store failures,
\* and reported a timeout; the row is committed all the same
C22_Witness ==
    \E c \in Calls :
        /\ abandonedAt[c] \in {"connect", "execute", "commit"}
        /\ Failed(c) = {}
        /\ pc[c] = "done"
        /\ resp[c].status = 200
        /\ Cardinality(RowsOf(c)) = 1
        /\ cl_pc = "returned"
        /\ result.kind = "timeout"
        /\ ~result.success

\* the outcome is a 5xx response, a timeout or another transport error
ServerOrTransportFailure(o) ==
    \/ o.kind \in {"timeout", "error"}
    \/ o.kind = "response" /\ 500 <= o.status /\ o.status < 600

\* the status a result reports for an outcome: None for a timeout or an error
StatusOf(o) == IF o.kind = "response" THEN o.status ELSE 0

\* C23: send_request issues at most max_retries POSTs; a further POST, and
\* the sleep before it, follow only a 5xx response, a timeout or a transport
\* error; the i-th sleep lasts 0.5 * i; the result reports the status of the
\* last POST and the number of POSTs issued.
C23_SendRequest ==
    /\ Len(posts) <= cl_max_retries
    /\ \A i \in 1..(Len(posts) - 1) : ServerOrTransportFailure(posts[i])
    /\ cl_pc = "sleep" => ServerOrTransportFailure(posts[Len(posts)])
    /\ Len(cl_sleeps) = cl_attempt
    /\ Len(cl_sleeps) \in {Len(posts) - 1, Len(posts)}
    /\ \A i \in 1..Len(cl_sleeps) : cl_sleeps[i] = 5 * i
    /\ (cl_pc = "returned" /\ posts # <<>>) =>
           /\ result.attempt = Len(posts)
           /\ result.status_code = StatusOf(posts[Len(posts)])
           /\ result.success = (StatusOf(posts[Len(posts)]) = 200)

====
